---------------------------- MODULE Spec2Model ----------------------------
(***************************************************************************)
(* A model of two parts of the repository:                                 *)
(*                                                                         *)
(*   src/src/field/goldilocks_field.rs    the 64-bit prime field           *)
(*   src/curta/src/plonky2/stark/proof.rs the STARK proof, its opening set *)
(*                                        and the Fiat-Shamir derivation   *)
(*                                        of the verifier's challenges     *)
(*                                                                         *)
(* TLC's integers are 32 bits wide, so a u64 is a little-endian sequence   *)
(* of 8 bytes and a u128 one of 16 bytes; the machine operations           *)
(* (overflowing_add, wrapping_sub, the widening product, ...) are computed *)
(* on those bytes at their real width.                                     *)
(***************************************************************************)
EXTENDS Integers, Sequences, FiniteSets, TLC

VARIABLES
    \* field arithmetic
    fcall,          \* the call under way: [op, a, b]
    fret,           \* what the call returned (Pending before)
    \* challenge derivation: the inputs
    proof,          \* the StarkProof (StarkProofTarget has the same fields)
    rounds,         \* stark.air().round_data()
    public_inputs,
    config,         \* the StarkyConfig
    \* challenge derivation: the call under way
    pc,             \* where the call stands ("idle": no call)
    mode,           \* "plain": get_challenges, "target": get_challenges_target
    degree_bits,    \* the caller's degree_bits (get_challenges only)
    round_i,        \* rounds the loop has gone through
    challenger,     \* the transcript's sponge
    log,            \* the transcript operations of this call, in order
    challenges,     \* the local `challenges`
    stark_alphas,
    stark_zeta,
    history,        \* how each finished call ended, in order
    \* recover_degree_bits
    dproof,         \* the proof's opening_proof
    dconfig,        \* config.fri_config
    dret,           \* what StarkProof::recover_degree_bits returned
    dret_target,    \* what StarkProofTarget::recover_degree_bits returned
    \* to_fri_openings
    oset,           \* the opening set
    ofri,           \* StarkOpeningSet::to_fri_openings
    ofri_target,    \* StarkOpeningSetTarget::to_fri_openings
    \* StarkOpeningSet::new
    nin,            \* its arguments
    nphase,         \* the collection under way
    nslots,         \* the evaluations the workers have finished, by position
    norder,         \* the order the workers finished in
    nshuffled,      \* whether some collection's workers finished out of order
    nout            \* the collections built so far

fieldVars == <<fcall, fret>>
inputVars == <<proof, rounds, public_inputs, config>>
callVars == <<pc, mode, degree_bits, round_i, challenger, log, challenges,
              stark_alphas, stark_zeta, history>>
degreeVars == <<dproof, dconfig, dret, dret_target>>
openingVars == <<oset, ofri, ofri_target>>
newVars == <<nin, nphase, nslots, norder, nshuffled, nout>>
vars == <<fieldVars, inputVars, callVars, degreeVars, openingVars, newVars>>

Pending == "pending"
None == <<>>
Some(v) == <<v>>

(***************************************************************************)
(* Machine integers                                                        *)
(***************************************************************************)
BYTE == 2^8

\* The two bytes of a 16-bit quarter, least significant first.
Q(q) == <<q % BYTE, q \div BYTE>>
\* A u64 from its four 16-bit quarters, most significant first.
U64(q3, q2, q1, q0) == Q(q0) \o Q(q1) \o Q(q2) \o Q(q3)

RECURSIVE AddCarry(_, _, _)
AddCarry(x, y, c) ==
    IF x = <<>> THEN <<c>>
    ELSE LET s == Head(x) + Head(y) + c
         IN  <<s % BYTE>> \o AddCarry(Tail(x), Tail(y), s \div BYTE)

RECURSIVE SubBorrow(_, _, _)
SubBorrow(x, y, b) ==
    IF x = <<>> THEN <<b>>
    ELSE LET d == Head(x) - Head(y) - b
         IN  <<(d + BYTE) % BYTE>>
                 \o SubBorrow(Tail(x), Tail(y), IF d < 0 THEN 1 ELSE 0)

\* u64::overflowing_add: the wrapped sum and whether it overflowed.
overflowing_add(x, y) ==
    LET r == AddCarry(x, y, 0)
    IN  [val |-> SubSeq(r, 1, Len(x)), flag |-> r[Len(x) + 1]]

\* u64::overflowing_sub: the wrapped difference and whether it underflowed.
overflowing_sub(x, y) ==
    LET r == SubBorrow(x, y, 0)
    IN  [val |-> SubSeq(r, 1, Len(x)), flag |-> r[Len(x) + 1]]

wrapping_add(x, y) == overflowing_add(x, y).val
wrapping_sub(x, y) == overflowing_sub(x, y).val

\* x >= y, for little-endian byte sequences of one length.
RECURSIVE GeqFrom(_, _, _)
GeqFrom(x, y, i) ==
    IF i = 0 THEN TRUE
    ELSE IF x[i] # y[i] THEN x[i] > y[i]
    ELSE GeqFrom(x, y, i - 1)
Geq(x, y) == GeqFrom(x, y, Len(x))

RECURSIVE ColSum(_, _, _, _)
ColSum(x, y, k, i) ==
    IF i > k \/ i >= Len(x) THEN 0
    ELSE (IF k - i < Len(y) THEN x[i + 1] * y[k - i + 1] ELSE 0)
             + ColSum(x, y, k, i + 1)

RECURSIVE MulCarry(_, _, _, _)
MulCarry(x, y, k, c) ==
    IF k = Len(x) + Len(y) THEN <<>>
    ELSE LET s == ColSum(x, y, k, 0) + c
         IN  <<s % BYTE>> \o MulCarry(x, y, k + 1, s \div BYTE)

\* (x as u128) * (y as u128): the full 128-bit product of two u64.
widening_mul(x, y) == MulCarry(x, y, 0, 0)

\* u64 * u64 where the code writes a plain `*`: the low 64 bits.
umul(x, y) == SubSeq(widening_mul(x, y), 1, 8)
\* Whether that plain `*` exceeds 64 bits.
umul_overflows(x, y) == SubSeq(widening_mul(x, y), 9, 16) # <<0, 0, 0, 0, 0, 0, 0, 0>>

RECURSIVE AndBits(_, _, _)
AndBits(a, b, k) ==
    IF k = 0 THEN 0
    ELSE (a % 2) * (b % 2) + 2 * AndBits(a \div 2, b \div 2, k - 1)
\* x & y
bitand(x, y) == [i \in 1..Len(x) |-> AndBits(x[i], y[i], 8)]
\* x >> 32
shr32(x) == SubSeq(x, 5, 8) \o <<0, 0, 0, 0>>

(***************************************************************************)
(* GoldilocksField                                                         *)
(***************************************************************************)
ZERO == U64(0, 0, 0, 0)
ONE == U64(0, 0, 0, 1)
\* (1 << 32) - 1
EPSILON == U64(0, 0, \hFFFF, \hFFFF)
\* 0xFFFFFFFF00000001
ORDER == U64(\hFFFF, \hFFFF, 0, 1)

\* `flag as u64`
as_u64(flag) == IF flag = 1 THEN ONE ELSE ZERO

split(x) == [lo |-> SubSeq(x, 1, 8), hi |-> SubSeq(x, 9, 16)]

\* The intermediate values of reduce128, kept for the claims about them.
reduce128_steps(x) ==
    LET x_lo == split(x).lo
        x_hi == split(x).hi
        x_hi_hi == shr32(x_hi)
        x_hi_lo == bitand(x_hi, EPSILON)
        s0 == overflowing_sub(x_lo, x_hi_hi)
        c0 == overflowing_sub(s0.val, umul(EPSILON, as_u64(s0.flag)))
        t0 == c0.val
        t1 == umul(x_hi_lo, EPSILON)
        s2 == overflowing_add(t1, t0)
        c2 == overflowing_add(s2.val, umul(EPSILON, as_u64(s2.flag)))
    IN  [borrow |-> s0.flag, carry |-> s2.flag,
         t0_wraps |-> c0.flag, t1_overflows |-> umul_overflows(x_hi_lo, EPSILON),
         t2_wraps |-> c2.flag, t2 |-> c2.val]

reduce128_drop_carry(x) ==
    LET x_lo == split(x).lo
        x_hi == split(x).hi
        x_hi_hi == shr32(x_hi)
        x_hi_lo == bitand(x_hi, EPSILON)
        s0 == overflowing_sub(x_lo, x_hi_hi)
        t0 == wrapping_sub(s0.val, umul(EPSILON, as_u64(s0.flag)))
        t1 == umul(x_hi_lo, EPSILON)
    IN  wrapping_add(t1, t0)

reduce128(x) == reduce128_steps(x).t2

to_canonical_u64(c) == IF Geq(c, ORDER) THEN wrapping_sub(c, ORDER) ELSE c

\* The intermediate values of add: the overflowing sum and the correction.
add_steps(a, b) ==
    LET r == overflowing_add(a, to_canonical_u64(b))
        c == overflowing_sub(r.val, umul(as_u64(r.flag), ORDER))
    IN  [over |-> r.flag, sum |-> r.val, wraps |-> c.flag, val |-> c.val]

add_no_correction(a, b) == overflowing_add(a, to_canonical_u64(b)).val

add(a, b) == add_steps(a, b).val

\* The intermediate values of sub: the overflowing difference and the correction.
sub_steps(a, b) ==
    LET r == overflowing_sub(a, to_canonical_u64(b))
        c == overflowing_add(r.val, umul(as_u64(r.flag), ORDER))
    IN  [under |-> r.flag, diff |-> r.val, wraps |-> c.flag, val |-> c.val]

sub(a, b) == sub_steps(a, b).val

mul(a, b) == reduce128(widening_mul(a, b))

\* x^e by squaring, e a little-endian byte sequence read from its top bit.
RECURSIVE PowBits(_, _, _, _)
PowBits(x, e, k, acc) ==
    IF k = 0 THEN acc
    ELSE LET bit == (e[((k - 1) \div 8) + 1] \div (2^((k - 1) % 8))) % 2
             sq == mul(acc, acc)
             n == IF bit = 1 THEN mul(sq, x) ELSE sq
         IN  IF Len(n) = 8 THEN PowBits(x, e, k - 1, n) ELSE <<>>

\* crate::field::inversion::try_inverse_u64 is not among the sources.  Its
\* contract: no value for the zero element, else the inverse modulo p.  The
\* inverse is computed here as x^(p-2).
try_inverse_u64(x, p) ==
    IF to_canonical_u64(x) = ZERO THEN None
    ELSE Some(to_canonical_u64(PowBits(x, wrapping_sub(p, U64(0, 0, 0, 2)), 64, ONE)))

try_inverse_unwrap_or_zero(x) ==
    LET r == try_inverse_u64(x, ORDER)
    IN  IF r = None THEN Some(ZERO) ELSE Some(r[1])

try_inverse(x) ==
    LET r == try_inverse_u64(x, ORDER)
    IN  IF r = None THEN None ELSE Some(r[1])

(***************************************************************************)
(* Reference arithmetic modulo P on unbounded integers, one bit at a time: *)
(* r := (2r + bit) mod P.  It shares nothing with reduce128.               *)
(***************************************************************************)
ModStep(r, bit) ==
    LET d == AddCarry(r, r, bit)
        P9 == ORDER \o <<0>>
    IN  IF Geq(d, P9) THEN SubSeq(SubBorrow(d, P9, 0), 1, 8) ELSE SubSeq(d, 1, 8)

RECURSIVE ModBits(_, _, _)
ModBits(r, byte, k) ==
    IF k < 0 THEN r
    ELSE LET n == ModStep(r, (byte \div (2^k)) % 2)
         IN  IF Len(n) = 8 THEN ModBits(n, byte, k - 1) ELSE <<>>

RECURSIVE RefModFrom(_, _, _)
RefModFrom(x, i, r) ==
    IF i = 0 THEN r
    ELSE LET n == ModBits(r, x[i], 7)
         IN  IF Len(n) = 8 THEN RefModFrom(x, i - 1, n) ELSE <<>>

\* x mod P, for x of any length.
RefMod(x) == RefModFrom(x, Len(x), ZERO)

\* (a + b) mod P for a, b < P.
RefAddMod(a, b) ==
    LET d == AddCarry(a, b, 0)
        P9 == ORDER \o <<0>>
    IN  IF Geq(d, P9) THEN SubSeq(SubBorrow(d, P9, 0), 1, 8) ELSE SubSeq(d, 1, 8)

\* (a - b) mod P for a, b < P.
RefSubMod(a, b) ==
    IF Geq(a, b) THEN SubSeq(SubBorrow(a, b, 0), 1, 8)
    ELSE SubSeq(SubBorrow(SubSeq(AddCarry(a, ORDER, 0), 1, 8), b, 0), 1, 8)

\* (a * b) mod P by double-and-add over the bits of a: r := (2r + bit * b) mod P.
RECURSIVE RefMulBits(_, _, _, _)
RefMulBits(a, b, k, r) ==
    IF k = 0 THEN r
    ELSE LET bit == (a[((k - 1) \div 8) + 1] \div (2^((k - 1) % 8))) % 2
             dbl == RefAddMod(r, r)
             n == IF bit = 1 THEN RefAddMod(dbl, b) ELSE dbl
         IN  IF Len(n) = 8 THEN RefMulBits(a, b, k - 1, n) ELSE <<>>
RefMulMod(a, b) == RefMulBits(a, RefMod(b), 64, ZERO)

(***************************************************************************)
(* The transcript.  crate::plonky2::challenger (Plonky2Challenger and      *)
(* Plonky2RecursiveChallenger, over plonky2's Challenger) is not among the *)
(* sources.  It is modelled from the specification: a sponge that absorbs  *)
(* elements in order and squeezes values that depend on everything         *)
(* absorbed and squeezed before.  The permutation is a stand-in: a mixing  *)
(* step modulo HashMod.  The two challengers run the same sponge (the      *)
(* in-circuit one on wires that carry the same values).                    *)
(***************************************************************************)
HashMod == 2^13 - 1
FreshSponge == 1
\* The extension degree.
D == 2

observe_element(s, x) == (s * 31 + x + 7) % HashMod

RECURSIVE observe_elements(_, _)
observe_elements(s, xs) ==
    IF xs = <<>> THEN s
    ELSE observe_elements(observe_element(s, Head(xs)), Tail(xs))

\* A cap is the sequence of its digests' elements.
observe_cap(s, cap) == observe_elements(s, cap)

get_challenge(s) ==
    [out |-> (s * 17 + 3) % HashMod, sponge |-> (s * 31 + 5) % HashMod]

RECURSIVE get_n_challenges(_, _)
get_n_challenges(s, n) ==
    IF n = 0 THEN [out |-> <<>>, sponge |-> s]
    ELSE LET c == get_challenge(s)
             r == get_n_challenges(c.sponge, n - 1)
         IN  [out |-> <<c.out>> \o r.out, sponge |-> r.sponge]

\* D base elements, packed into one extension element.
get_extension_challenge(s) == get_n_challenges(s, D)

\* The coordinates of a sequence of extension elements, in order.
RECURSIVE Flatten(_)
Flatten(es) == IF es = <<>> THEN <<>> ELSE Head(es) \o Flatten(Tail(es))

observe_extension_elements(s, es) == observe_elements(s, Flatten(es))

RECURSIVE observe_batches(_, _)
observe_batches(s, batches) ==
    IF batches = <<>> THEN s
    ELSE observe_batches(observe_extension_elements(s, Head(batches).values),
                         Tail(batches))

observe_openings(s, fri_openings) == observe_batches(s, fri_openings.batches)

\* What plonky2's fri_challenges does with the transcript: squeeze alpha,
\* absorb each commit-phase cap and squeeze a beta after it, absorb the final
\* polynomial and the proof-of-work witness, squeeze the proof-of-work
\* response and one value per query round.
RECURSIVE FriBetas(_, _)
FriBetas(s, caps) ==
    IF caps = <<>> THEN [out |-> <<>>, sponge |-> s]
    ELSE LET c == get_extension_challenge(observe_cap(s, Head(caps)))
             r == FriBetas(c.sponge, Tail(caps))
         IN  [out |-> <<c.out>> \o r.out, sponge |-> r.sponge]

FriTranscript(s, commit_phase_merkle_caps, final_poly, pow_witness, fri_config) ==
    LET a == get_extension_challenge(s)
        b == FriBetas(a.sponge, commit_phase_merkle_caps)
        p == get_challenge(observe_element(
                 observe_extension_elements(b.sponge, final_poly), pow_witness))
        q == get_n_challenges(p.sponge, fri_config.num_query_rounds)
    IN  [fri_alpha |-> a.out, fri_betas |-> b.out,
         fri_pow_response |-> p.out, fri_query_indices |-> q.out]

\* The plain fri_challenges: a query index is a squeezed value modulo the
\* size of the low-degree extension, 1 << (degree_bits + rate_bits).
fri_challenges(s, commit_phase_merkle_caps, final_poly, pow_witness, deg, fri_config) ==
    LET t == FriTranscript(s, commit_phase_merkle_caps, final_poly, pow_witness,
                           fri_config)
        lde_size == 2^(deg + fri_config.rate_bits)
    IN  [t EXCEPT !.fri_query_indices =
             [k \in 1..Len(@) |-> @[k] % lde_size]]

\* The in-circuit fri_challenges: it is given no degree_bits, and a query
\* index is the squeezed wire itself.
fri_challenges_target(s, commit_phase_merkle_caps, final_poly, pow_witness, fri_config) ==
    FriTranscript(s, commit_phase_merkle_caps, final_poly, pow_witness, fri_config)

(***************************************************************************)
(* StarkOpeningSet and StarkOpeningSetTarget                               *)
(***************************************************************************)
\* a.iter().chain(b).copied().collect()
Chain(a, b) ==
    [k \in 1..(Len(a) + Len(b)) |-> IF k <= Len(a) THEN a[k] ELSE b[k - Len(a)]]

ChainSwapped(a, b) ==
    [k \in 1..(Len(a) + Len(b)) |-> IF k <= Len(b) THEN b[k] ELSE a[k - Len(b)]]

to_fri_openings_quotient_first(o) ==
    LET zeta_batch == [values |-> ChainSwapped(o.local_values, o.quotient_polys)]
        zeta_next_batch == [values |-> o.next_values]
    IN  [batches |-> <<zeta_batch, zeta_next_batch>>]

to_fri_openings(o) ==
    LET zeta_batch == [values |-> Chain(o.local_values, o.quotient_polys)]
        zeta_next_batch == [values |-> o.next_values]
    IN  [batches |-> <<zeta_batch, zeta_next_batch>>]

to_fri_openings_target(o) ==
    LET zeta_batch == [values |-> Chain(o.local_values, o.quotient_polys)]
        zeta_next_batch == [values |-> o.next_values]
    IN  [batches |-> <<zeta_batch, zeta_next_batch>>]

(***************************************************************************)
(* The bounds of the model                                                 *)
(***************************************************************************)
\* Rounds in the round metadata, and trace caps in a proof.
MaxRounds == 2
\* Calls of get_challenges and get_challenges_target in one behaviour.
MaxCalls == 2
\* Values in each sequence of an opening set.
MaxValues == 2
\* Query rounds in an opening proof, and evaluation proofs in a query round.
MaxQueries == 2
\* Trace commitments given to StarkOpeningSet::new.
MaxCommitments == 2

(***************************************************************************)
(* What each part of the model is while a behaviour is about another part  *)
(***************************************************************************)
FieldIdle == fcall = [op |-> "none", a |-> ZERO, b |-> ZERO] /\ fret = Pending

NoProof ==
    [trace_caps |-> <<>>, quotient_polys_cap |-> <<>>, global_values |-> <<>>,
     openings |-> [local_values |-> <<>>, next_values |-> <<>>, quotient_polys |-> <<>>],
     opening_proof |-> [commit_phase_merkle_caps |-> <<>>, final_poly |-> <<>>,
                        pow_witness |-> 0]]
FriConfig == [rate_bits |-> 1, cap_height |-> 0, num_query_rounds |-> 2]

CallsIdle ==
    /\ proof = NoProof /\ rounds = <<>> /\ public_inputs = <<>>
    /\ config = [num_challenges |-> 0, fri_config |-> FriConfig]
    /\ pc = "off" /\ mode = "plain" /\ degree_bits = 0 /\ round_i = 0
    /\ challenger = FreshSponge /\ log = <<>> /\ challenges = <<>>
    /\ stark_alphas = <<>> /\ stark_zeta = <<>> /\ history = <<>>

\* recover_degree_bits has not returned; to_fri_openings has not returned.
NotReturned == [kind |-> "pending", value |-> 0]
NoOpenings == [batches |-> <<>>]

DegreeIdle ==
    /\ dproof = [query_round_proofs |-> <<>>]
    /\ dconfig = FriConfig
    /\ dret = NotReturned /\ dret_target = NotReturned

OpeningsIdle ==
    /\ oset = [local_values |-> <<>>, next_values |-> <<>>, quotient_polys |-> <<>>]
    /\ ofri = NoOpenings /\ ofri_target = NoOpenings

NewIdle ==
    /\ nin = [zeta |-> <<0, 0>>, g |-> 0, trace_commitments |-> <<>>,
              quotient_commitment |-> [polynomials |-> <<>>]]
    /\ nphase = "off" /\ nslots = <<>> /\ norder = <<>> /\ nshuffled = FALSE
    /\ nout = [local_values |-> <<>>, next_values |-> <<>>, quotient_polys |-> <<>>]

(***************************************************************************)
(* The field operations as a state machine: a call drawn from sample       *)
(* operands, then the operation applied to it.                             *)
(***************************************************************************)
\* Every u64 whose 16-bit quarters are 0, 1 or 0xFFFF: among them 0, 1,
\* EPSILON, 2^32, P - 1, P, P + 1 and 2^64 - 1.
Quarters == {0, 1, \hFFFF}
Structured == {U64(a, b, c, d) : a, b, c, d \in Quarters}

Special == {
    U64(0, 0, 0, 2), U64(0, 0, 0, 7),
    U64(0, 0, \hFFFF, \hFFFE), U64(\h8000, 0, 0, 0),
    U64(\hFFFF, \hFFFE, \hFFFF, \hFFFF), U64(\hFFFF, \hFFFF, 0, 0),
    ORDER, U64(\hFFFF, \hFFFF, 0, 2),
    U64(\hFFFF, \hFFFF, \hFFFF, \hFFFE), U64(\hFFFF, \hFFFF, \hFFFF, \hFFFF),
    U64(\h7FFF, \hFFFF, \h8000, 0), U64(\hFFFF, \hFFFE, 0, 2),
    U64(\h0123, \h4567, \h89AB, \hCDEF), U64(\hFEDC, \hBA98, \h7654, \h3210),
    U64(\h1856, \h29DC, \hDA58, \h878C), ZERO, ONE, EPSILON }

Words == Structured \cup Special

\* The operands of try_inverse: zero in both representations (0 and P),
\* canonical and non-canonical (>= P) nonzero elements.
InverseWords == {
    ZERO, ONE, ORDER, U64(0, 0, 0, 7), EPSILON, U64(0, 1, 0, 0),
    U64(\hFFFF, \hFFFF, 0, 0), U64(\hFFFF, \hFFFF, 0, 2),
    U64(\hFFFF, \hFFFF, \hFFFF, \hFFFF), U64(\h0123, \h4567, \h89AB, \hCDEF),
    U64(\h1856, \h29DC, \hDA58, \h878C), U64(\hFFFF, \hFFFF, \h8000, 0) }

FieldCalls ==
    [op : {"add", "sub", "mul"}, a : Words, b : Special]
        \cup [op : {"reduce128"}, a : Words, b : Special]
        \cup [op : {"reduce128"}, a : Special, b : Words]
        \cup [op : {"try_inverse"}, a : InverseWords, b : {ZERO}]

notField == <<inputVars, callVars, degreeVars, openingVars, newVars>>

FieldInit ==
    /\ fcall \in FieldCalls /\ fret = Pending
    /\ CallsIdle /\ DegreeIdle /\ OpeningsIdle /\ NewIdle

Add ==
    /\ fcall.op = "add" /\ fret = Pending
    /\ fret' = add(fcall.a, fcall.b)
    /\ UNCHANGED <<fcall, notField>>

Sub ==
    /\ fcall.op = "sub" /\ fret = Pending
    /\ fret' = sub(fcall.a, fcall.b)
    /\ UNCHANGED <<fcall, notField>>

Mul ==
    /\ fcall.op = "mul" /\ fret = Pending
    /\ fret' = mul(fcall.a, fcall.b)
    /\ UNCHANGED <<fcall, notField>>

\* from_noncanonical_u128(x) with x = a + 2^64 * b
Reduce128 ==
    /\ fcall.op = "reduce128" /\ fret = Pending
    /\ fret' = reduce128(fcall.a \o fcall.b)
    /\ UNCHANGED <<fcall, notField>>

TryInverse ==
    /\ fcall.op = "try_inverse" /\ fret = Pending
    /\ fret' = try_inverse(fcall.a)
    /\ UNCHANGED <<fcall, notField>>

FieldNext == Add \/ Sub \/ Mul \/ Reduce128 \/ TryInverse

SpecField == FieldInit /\ [][FieldNext]_vars

Returned(op) == fcall.op = op /\ fret # Pending

(***************************************************************************)
(* Challenge derivation: StarkProof::get_challenges and                    *)
(* StarkProofTarget::get_challenges_target, as calls on one proof, one     *)
(* round metadata, one sequence of public inputs and one configuration.    *)
(* A call runs to its end (it returns, or it panics) before the next.      *)
(***************************************************************************)
\* The cap of round r.
TraceCap(r) == <<10 + r>>

RoundChoices == {
    [global_values_range |-> <<0, 1>>, num_challenges |-> 1],
    [global_values_range |-> <<1, 2>>, num_challenges |-> 2],
    [global_values_range |-> <<1, 1>>, num_challenges |-> 0] }

Proofs ==
    { [trace_caps |-> [r \in 1..n |-> TraceCap(r)],
       quotient_polys_cap |-> <<20>>,
       global_values |-> gv,
       openings |-> [local_values |-> << <<41, 42>>, <<43, 44>> >>,
                     next_values |-> << <<45, 46>> >>,
                     quotient_polys |-> << <<47, 48>> >>],
       opening_proof |-> [commit_phase_merkle_caps |-> << <<31>> >>,
                          final_poly |-> << <<32, 33>> >>,
                          pow_witness |-> 34]]
      : n \in 0..MaxRounds, gv \in {<<21>>, <<21, 22>>} }

\* The degree_bits a caller may pass.
DegreeChoices == {1, 2}

notCalls == <<fieldVars, degreeVars, openingVars, newVars>>

CallsInit ==
    /\ proof \in Proofs
    /\ rounds \in UNION {[1..n -> RoundChoices] : n \in 0..MaxRounds}
    /\ public_inputs = <<3, 4>>
    /\ config = [num_challenges |-> 2, fri_config |-> FriConfig]
    /\ pc = "idle" /\ mode = "plain" /\ degree_bits = 0 /\ round_i = 0
    /\ challenger = FreshSponge /\ log = <<>> /\ challenges = <<>>
    /\ stark_alphas = <<>> /\ stark_zeta = <<>> /\ history = <<>>
    /\ FieldIdle /\ DegreeIdle /\ OpeningsIdle /\ NewIdle

\* One transcript operation, as the log keeps it: what was called, on which
\* part of the input (and for which round), and its operand: the elements
\* absorbed, or the number of values squeezed.
Entry(op, src, r, arg) == [op |-> op, src |-> <<src, r>>, arg |-> arg]

\* global_values[id_0..id_1] panics unless id_0 <= id_1 <= len.
SliceOk(gv, range) == range[1] <= range[2] /\ range[2] <= Len(gv)
Slice(gv, range) == SubSeq(gv, range[1] + 1, range[2])

\* The body of the loop over the rounds, for round r.
round_body_squeeze_first(s, round, cap, gv, r) ==
    LET s1 == observe_elements(s, Slice(gv, round.global_values_range))
        c == get_n_challenges(s1, round.num_challenges)
        s2 == observe_cap(c.sponge, cap)
    IN  [sponge |-> s2, round_challenges |-> c.out,
         ops |-> << Entry("observe_elements", "global_values", r,
                          <<Slice(gv, round.global_values_range)>>),
                    Entry("get_n_challenges", "round", r, <<<<round.num_challenges>>>>),
                    Entry("observe_cap", "trace_cap", r, <<cap>>) >>]

round_body(s, round, cap, gv, r) ==
    LET s1 == observe_elements(s, Slice(gv, round.global_values_range))
        s2 == observe_cap(s1, cap)
        c == get_n_challenges(s2, round.num_challenges)
    IN  [sponge |-> c.sponge, round_challenges |-> c.out,
         ops |-> << Entry("observe_elements", "global_values", r,
                          <<Slice(gv, round.global_values_range)>>),
                    Entry("observe_cap", "trace_cap", r, <<cap>>),
                    Entry("get_n_challenges", "round", r, <<<<round.num_challenges>>>>) >>]

\* The operand of observe_openings, as the log keeps it: the coordinates of
\* each batch.
BatchesArg(fri_openings) ==
    [k \in 1..Len(fri_openings.batches) |-> Flatten(fri_openings.batches[k].values)]

NoFri == [fri_alpha |-> <<>>, fri_betas |-> <<>>, fri_pow_response |-> 0,
          fri_query_indices |-> <<>>]

Returns(fri) ==
    [mode |-> mode, degree_bits |-> degree_bits, status |-> "done",
     log |-> Append(log, Entry("fri_challenges", "opening_proof", 0, <<>>)),
     stark_alphas |-> stark_alphas, stark_betas |-> challenges,
     stark_zeta |-> stark_zeta, fri_challenges |-> fri]

Panics ==
    /\ history' = Append(history,
           [mode |-> mode, degree_bits |-> degree_bits, status |-> "panicked",
            log |-> log, stark_alphas |-> <<>>, stark_betas |-> <<>>,
            stark_zeta |-> <<>>, fri_challenges |-> NoFri])
    /\ pc' = "idle"
    /\ UNCHANGED <<mode, degree_bits, round_i, challenger, log, challenges,
                   stark_alphas, stark_zeta, inputVars, notCalls>>

At(m, where) == pc = where /\ mode = m

\* A caller calls get_challenges (with a degree_bits) or get_challenges_target.
Start(m, d) ==
    /\ pc = "idle" /\ Len(history) < MaxCalls
    /\ pc' = "new" /\ mode' = m /\ degree_bits' = d
    /\ round_i' = 0 /\ log' = <<>> /\ challenges' = <<>>
    /\ stark_alphas' = <<>> /\ stark_zeta' = <<>>
    /\ UNCHANGED <<challenger, history, inputVars, notCalls>>

CallPlain == \E d \in DegreeChoices : Start("plain", d)
CallTarget == Start("target", 0)

\* A call that goes on with the transcript the last call left behind.
KeepChallenger(m) ==
    /\ At(m, "new")
    /\ pc' = "observe_public"
    /\ UNCHANGED <<challenger, mode, degree_bits, round_i, log, challenges,
                   stark_alphas, stark_zeta, history, inputVars, notCalls>>

\* The steps every call takes, whichever the challenger.
NewChallenger(m) ==
    /\ At(m, "new")
    /\ challenger' = FreshSponge
    /\ pc' = "observe_public"
    /\ UNCHANGED <<mode, degree_bits, round_i, log, challenges, stark_alphas,
                   stark_zeta, history, inputVars, notCalls>>

ObservePublicInputs(m) ==
    /\ At(m, "observe_public")
    /\ challenger' = observe_elements(challenger, public_inputs)
    /\ log' = Append(log, Entry("observe_elements", "public_inputs", 0, <<public_inputs>>))
    /\ pc' = "rounds"
    /\ UNCHANGED <<mode, degree_bits, round_i, challenges, stark_alphas,
                   stark_zeta, history, inputVars, notCalls>>

\* The loop has a round and a cap left.
HasPair == round_i < Len(rounds) /\ round_i < Len(proof.trace_caps)

Round(m) ==
    /\ At(m, "rounds") /\ HasPair
    /\ SliceOk(proof.global_values, rounds[round_i + 1].global_values_range)
    /\ LET b == round_body(challenger, rounds[round_i + 1],
                           proof.trace_caps[round_i + 1], proof.global_values,
                           round_i + 1)
       IN  /\ challenger' = b.sponge
           /\ log' = log \o b.ops
           /\ challenges' = challenges \o b.round_challenges
    /\ round_i' = round_i + 1
    /\ UNCHANGED <<pc, mode, degree_bits, stark_alphas, stark_zeta, history,
                   inputVars, notCalls>>

SlicePanic(m) ==
    /\ At(m, "rounds") /\ HasPair
    /\ ~SliceOk(proof.global_values, rounds[round_i + 1].global_values_range)
    /\ Panics

Alphas(m) ==
    /\ At(m, "alphas")
    /\ LET c == get_n_challenges(challenger, config.num_challenges)
       IN  /\ challenger' = c.sponge
           /\ stark_alphas' = c.out
    /\ log' = Append(log, Entry("get_n_challenges", "alphas", 0, <<<<config.num_challenges>>>>))
    /\ pc' = "quotient_cap"
    /\ UNCHANGED <<mode, degree_bits, round_i, challenges, stark_zeta, history,
                   inputVars, notCalls>>

QuotientCap(m) ==
    /\ At(m, "quotient_cap")
    /\ challenger' = observe_cap(challenger, proof.quotient_polys_cap)
    /\ log' = Append(log, Entry("observe_cap", "quotient_polys_cap", 0,
                                <<proof.quotient_polys_cap>>))
    /\ pc' = "zeta"
    /\ UNCHANGED <<mode, degree_bits, round_i, challenges, stark_alphas,
                   stark_zeta, history, inputVars, notCalls>>

Zeta(m) ==
    /\ At(m, "zeta")
    /\ LET c == get_extension_challenge(challenger)
       IN  /\ challenger' = c.sponge
           /\ stark_zeta' = c.out
    /\ log' = Append(log, Entry("get_extension_challenge", "zeta", 0, <<<<D>>>>))
    /\ pc' = "openings"
    /\ UNCHANGED <<mode, degree_bits, round_i, challenges, stark_alphas, history,
                   inputVars, notCalls>>

\* get_challenges
PlainNew == NewChallenger("plain")
PlainObservePublicInputs == ObservePublicInputs("plain")
PlainRound == Round("plain")
PlainSlicePanic == SlicePanic("plain")

\* zip_eq: one of the two iterators ended before the other.
PlainZipEqPanic ==
    /\ At("plain", "rounds")
    /\ (round_i < Len(rounds)) # (round_i < Len(proof.trace_caps))
    /\ Panics

\* zip_eq: both iterators ended.
PlainRoundsEnd ==
    /\ At("plain", "rounds")
    /\ round_i = Len(rounds) /\ round_i = Len(proof.trace_caps)
    /\ pc' = "alphas"
    /\ UNCHANGED <<mode, degree_bits, round_i, challenger, log, challenges,
                   stark_alphas, stark_zeta, history, inputVars, notCalls>>

PlainAlphas == Alphas("plain")
PlainQuotientCap == QuotientCap("plain")
PlainZeta == Zeta("plain")

PlainOpenings ==
    /\ At("plain", "openings")
    /\ challenger' = observe_openings(challenger, to_fri_openings(proof.openings))
    /\ log' = Append(log, Entry("observe_openings", "openings", 0,
                                BatchesArg(to_fri_openings(proof.openings))))
    /\ pc' = "fri"
    /\ UNCHANGED <<mode, degree_bits, round_i, challenges, stark_alphas,
                   stark_zeta, history, inputVars, notCalls>>

PlainFri ==
    /\ At("plain", "fri")
    /\ history' = Append(history, Returns(
           fri_challenges(challenger, proof.opening_proof.commit_phase_merkle_caps,
                          proof.opening_proof.final_poly,
                          proof.opening_proof.pow_witness, degree_bits,
                          config.fri_config)))
    /\ pc' = "idle"
    /\ UNCHANGED <<mode, degree_bits, round_i, challenger, log, challenges,
                   stark_alphas, stark_zeta, inputVars, notCalls>>

\* get_challenges_target
TargetNew == NewChallenger("target")
TargetObservePublicInputs == ObservePublicInputs("target")
TargetRound == Round("target")
TargetSlicePanic == SlicePanic("target")

\* zip: the loop ends when either iterator ends.
TargetRoundsEnd ==
    /\ At("target", "rounds")
    /\ ~HasPair
    /\ pc' = "alphas"
    /\ UNCHANGED <<mode, degree_bits, round_i, challenger, log, challenges,
                   stark_alphas, stark_zeta, history, inputVars, notCalls>>

TargetAlphas == Alphas("target")
TargetQuotientCap == QuotientCap("target")
TargetZeta == Zeta("target")

TargetOpenings ==
    /\ At("target", "openings")
    /\ challenger' = observe_openings(challenger, to_fri_openings_target(proof.openings))
    /\ log' = Append(log, Entry("observe_openings", "openings", 0,
                                BatchesArg(to_fri_openings_target(proof.openings))))
    /\ pc' = "fri"
    /\ UNCHANGED <<mode, degree_bits, round_i, challenges, stark_alphas,
                   stark_zeta, history, inputVars, notCalls>>

TargetFri ==
    /\ At("target", "fri")
    /\ history' = Append(history, Returns(
           fri_challenges_target(challenger,
                                 proof.opening_proof.commit_phase_merkle_caps,
                                 proof.opening_proof.final_poly,
                                 proof.opening_proof.pow_witness,
                                 config.fri_config)))
    /\ pc' = "idle"
    /\ UNCHANGED <<mode, degree_bits, round_i, challenger, log, challenges,
                   stark_alphas, stark_zeta, inputVars, notCalls>>

Next ==
    \/ CallPlain \/ CallTarget
    \/ PlainNew \/ PlainObservePublicInputs \/ PlainRound \/ PlainSlicePanic
    \/ PlainZipEqPanic \/ PlainRoundsEnd \/ PlainAlphas \/ PlainQuotientCap
    \/ PlainZeta \/ PlainOpenings \/ PlainFri
    \/ TargetNew \/ TargetObservePublicInputs \/ TargetRound \/ TargetSlicePanic
    \/ TargetRoundsEnd \/ TargetAlphas \/ TargetQuotientCap \/ TargetZeta
    \/ TargetOpenings \/ TargetFri

Spec == CallsInit /\ [][Next]_vars

(***************************************************************************)
(* recover_degree_bits, of StarkProof and of StarkProofTarget              *)
(***************************************************************************)
\* What a call comes to: a value, a panic, or (an unchecked usize
\* subtraction that underflowed) the value 2^64 - value.
Ok(n) == [kind |-> "ok", value |-> n]
Panicked == [kind |-> "panic", value |-> 0]
Wrapped(n) == [kind |-> "wrapped", value |-> n]

\* lde_bits - rate_bits on usize: a build with overflow checks panics when it
\* underflows, a build without them wraps.
usize_sub(a, b) == IF a >= b THEN {Ok(a - b)} ELSE {Panicked, Wrapped(b - a)}

\* The Merkle proof recover_degree_bits reads in query round q (1 for the
\* code's index 0), and what the function comes to; an index out of bounds
\* panics.
degree_bits_of_query(p, cfg, q) ==
    IF Len(p.query_round_proofs) < q \/ q < 1 THEN {Panicked}
    ELSE LET evals_proofs == p.query_round_proofs[q].initial_trees_proof.evals_proofs
         IN  IF Len(evals_proofs) = 0 THEN {Panicked}
             ELSE LET initial_merkle_proof == evals_proofs[1][2]
                      lde_bits == cfg.cap_height + Len(initial_merkle_proof.siblings)
                  IN  usize_sub(lde_bits, cfg.rate_bits)

recover_degree_bits_last_query(p, cfg) ==
    degree_bits_of_query(p, cfg, Len(p.query_round_proofs))

recover_degree_bits(p, cfg) == degree_bits_of_query(p, cfg, 1)

recover_degree_bits_target(p, cfg) == degree_bits_of_query(p, cfg, 1)

\* A Merkle path of n siblings; an evaluation proof: (evals, Merkle proof).
Siblings(n) == [k \in 1..n |-> 60 + k]
EvalsProof(n) == << <<>>, [siblings |-> Siblings(n)] >>

PathLengths == {0, 1, 20}
EvalsProofs == UNION {[1..m -> {EvalsProof(n) : n \in PathLengths}] : m \in 0..2}
QueryRounds == {[initial_trees_proof |-> [evals_proofs |-> e]] : e \in EvalsProofs}

notDegree == <<fieldVars, inputVars, callVars, openingVars, newVars>>

DegreeInit ==
    /\ dproof \in {[query_round_proofs |-> q] :
                      q \in UNION {[1..n -> QueryRounds] : n \in 0..MaxQueries}}
    /\ dconfig \in {[FriConfig EXCEPT !.cap_height = c, !.rate_bits = r] :
                       c \in {0, 4}, r \in {0, 3, 5}}
    /\ dret = NotReturned /\ dret_target = NotReturned
    /\ FieldIdle /\ CallsIdle /\ OpeningsIdle /\ NewIdle

RecoverDegreeBits ==
    /\ dret = NotReturned
    /\ dret' \in recover_degree_bits(dproof, dconfig)
    /\ UNCHANGED <<dproof, dconfig, dret_target, notDegree>>

RecoverDegreeBitsTarget ==
    /\ dret_target = NotReturned
    /\ dret_target' \in recover_degree_bits_target(dproof, dconfig)
    /\ UNCHANGED <<dproof, dconfig, dret, notDegree>>

DegreeNext == RecoverDegreeBits \/ RecoverDegreeBitsTarget

SpecDegree == DegreeInit /\ [][DegreeNext]_vars

(***************************************************************************)
(* to_fri_openings, of StarkOpeningSet and of StarkOpeningSetTarget        *)
(***************************************************************************)
SeqsUpTo(S, n) == UNION {[1..k -> S] : k \in 0..n}

notOpenings == <<fieldVars, inputVars, callVars, degreeVars, newVars>>

OpeningsInit ==
    /\ oset \in [local_values : SeqsUpTo({"a", "b"}, MaxValues),
                 next_values : SeqsUpTo({"c"}, MaxValues),
                 quotient_polys : SeqsUpTo({"d", "a"}, MaxValues)]
    /\ ofri = NoOpenings /\ ofri_target = NoOpenings
    /\ FieldIdle /\ CallsIdle /\ DegreeIdle /\ NewIdle

ToFriOpenings ==
    /\ ofri = NoOpenings
    /\ ofri' = to_fri_openings(oset)
    /\ UNCHANGED <<oset, ofri_target, notOpenings>>

ToFriOpeningsTarget ==
    /\ ofri_target = NoOpenings
    /\ ofri_target' = to_fri_openings_target(oset)
    /\ UNCHANGED <<oset, ofri, notOpenings>>

OpeningsNext == ToFriOpenings \/ ToFriOpeningsTarget

SpecOpenings == OpeningsInit /\ [][OpeningsNext]_vars

(***************************************************************************)
(* StarkOpeningSet::new.  The extension field and the polynomials are      *)
(* plonky2's and not among the sources; they are modelled from the         *)
(* specification (tuples of D base elements modulo x^2 - W, Horner's       *)
(* method), over a small prime in place of the 64-bit one.                 *)
(***************************************************************************)
SmallOrder == 2^7 - 2^5 + 1
\* Extendable<2>::W
W == 7

ExtAdd(a, b) == <<(a[1] + b[1]) % SmallOrder, (a[2] + b[2]) % SmallOrder>>
ExtMul(a, b) ==
    <<(a[1] * b[1] + W * a[2] * b[2]) % SmallOrder,
      (a[1] * b[2] + a[2] * b[1]) % SmallOrder>>
scalar_mul(z, g) == <<(z[1] * g) % SmallOrder, (z[2] * g) % SmallOrder>>

\* p.to_extension(): each coefficient lifted into the extension.
to_extension(p) == [k \in 1..Len(p) |-> <<p[k] % SmallOrder, 0>>]

\* Horner's method, from the leading coefficient down.
RECURSIVE EvalFrom(_, _, _, _)
EvalFrom(p, z, k, acc) ==
    IF k = 0 THEN acc ELSE EvalFrom(p, z, k - 1, ExtAdd(ExtMul(acc, z), p[k]))
eval(p, z) == EvalFrom(p, z, Len(p), <<0, 0>>)

\* The columns of a sequence of commitments: (commitment, polynomial), in
\* the order of the commitments and, within one, of its polynomials.
RECURSIVE ColumnsFrom(_, _)
ColumnsFrom(commitments, c) ==
    IF c > Len(commitments) THEN <<>>
    ELSE [k \in 1..Len(commitments[c].polynomials) |-> <<c, k>>]
             \o ColumnsFrom(commitments, c + 1)
Columns(commitments) == ColumnsFrom(commitments, 1)

\* The three collections of `new`, in the order it builds them, the
\* commitments each is over and the point each evaluates at.
CommitmentsOf(phase) ==
    IF phase = "quotient_polys" THEN <<nin.quotient_commitment>>
    ELSE nin.trace_commitments

zeta_next == scalar_mul(nin.zeta, nin.g)

PointOf(phase) == IF phase = "next_values" THEN zeta_next ELSE nin.zeta

NextPhase(phase) ==
    CASE phase = "local_values" -> "next_values"
      [] phase = "next_values" -> "quotient_polys"
      [] phase = "quotient_polys" -> "done"

NoSlots(phase) ==
    [t \in {Columns(CommitmentsOf(phase))[k] :
               k \in 1..Len(Columns(CommitmentsOf(phase)))} |-> None]

\* eval_commitment's closure on one polynomial.
eval_column(z, c, k) == eval(to_extension(c.polynomials[k]), z)

\* collect::<Vec<_>>() on the parallel iterator: the results by position.
collect_in_completion_order(columns, slots, order) ==
    [k \in 1..Len(order) |-> slots[order[k]][1]]

collect(columns, slots, order) ==
    [k \in 1..Len(columns) |-> slots[columns[k]][1]]

PolyA == <<1, 2>>
PolyB == <<3>>
PolyC == <<0, 1, 1>>
Commitments == {[polynomials |-> <<PolyA, PolyB>>], [polynomials |-> <<PolyC>>]}

notNew == <<fieldVars, inputVars, callVars, degreeVars, openingVars>>

NewInit ==
    /\ nin \in [zeta : {<<2, 3>>, <<5, 0>>}, g : {3},
                trace_commitments : UNION {[1..n -> Commitments] :
                                              n \in 0..MaxCommitments},
                quotient_commitment : {[polynomials |-> <<PolyB, PolyA>>],
                                       [polynomials |-> <<PolyC>>]}]
    /\ nphase = "local_values"
    /\ nslots = [t \in {Columns(nin.trace_commitments)[k] :
                           k \in 1..Len(Columns(nin.trace_commitments))} |-> None]
    /\ norder = <<>> /\ nshuffled = FALSE
    /\ nout = [local_values |-> <<>>, next_values |-> <<>>, quotient_polys |-> <<>>]
    /\ FieldIdle /\ CallsIdle /\ DegreeIdle /\ OpeningsIdle

\* A worker finishes one column of the collection under way.
EvalColumn(t) ==
    /\ nphase # "done"
    /\ t \in DOMAIN nslots /\ nslots[t] = None
    /\ nslots' = [nslots EXCEPT
                      ![t] = Some(eval_column(PointOf(nphase),
                                              CommitmentsOf(nphase)[t[1]], t[2]))]
    /\ norder' = Append(norder, t)
    /\ UNCHANGED <<nin, nphase, nshuffled, nout, notNew>>

\* Every column is finished: the collection is assembled, and the next begins.
Collect ==
    /\ nphase # "done"
    /\ \A t \in DOMAIN nslots : nslots[t] # None
    /\ nout' = [nout EXCEPT ![nphase] =
                    collect(Columns(CommitmentsOf(nphase)), nslots, norder)]
    /\ nshuffled' = (nshuffled \/ norder # Columns(CommitmentsOf(nphase)))
    /\ nphase' = NextPhase(nphase)
    /\ nslots' = IF NextPhase(nphase) = "done" THEN <<>>
                 ELSE NoSlots(NextPhase(nphase))
    /\ norder' = <<>>
    /\ UNCHANGED <<nin, notNew>>

NewNext ==
    \/ \E t \in DOMAIN nslots : EvalColumn(t)
    \/ Collect

SpecNew == NewInit /\ [][NewNext]_vars

(***************************************************************************)
(* Claims about the field                                                  *)
(***************************************************************************)
\* C2: reduce128(x) is a 64-bit value congruent to x modulo P for every
\* 128-bit x (its plain `*` never exceeds 64 bits), and the canonical value
\* of mul(a, b) is (a * b) mod P for all representatives a and b.
C2_Reduce128Congruent ==
    /\ Returned("reduce128") =>
           /\ Len(fret) = 8
           /\ RefMod(fret) = RefMod(fcall.a \o fcall.b)
           /\ ~reduce128_steps(fcall.a \o fcall.b).t1_overflows
    /\ Returned("mul") =>
           to_canonical_u64(fret) = RefMulMod(fcall.a, fcall.b)

\* C2 witness: (P - 1) * (P - 1) has been multiplied and came out as 1.
C2_Witness ==
    /\ Returned("mul")
    /\ fcall.a = U64(\hFFFF, \hFFFF, 0, 0) /\ fcall.b = U64(\hFFFF, \hFFFF, 0, 0)
    /\ to_canonical_u64(fret) = ONE

Min(a, b) == IF a <= b THEN a ELSE b
IsPrefix(a, b) == Len(a) <= Len(b) /\ SubSeq(b, 1, Len(a)) = a

\* The order of section 4.4, written out from the inputs: the operations of
\* the first n rounds,
RECURSIVE ExpectedRounds(_)
ExpectedRounds(n) ==
    IF n = 0 THEN <<>>
    ELSE ExpectedRounds(n - 1) \o
         << Entry("observe_elements", "global_values", n,
                  << IF SliceOk(proof.global_values, rounds[n].global_values_range)
                     THEN Slice(proof.global_values, rounds[n].global_values_range)
                     ELSE <<>> >>),
            Entry("observe_cap", "trace_cap", n, <<proof.trace_caps[n]>>),
            Entry("get_n_challenges", "round", n, <<<<rounds[n].num_challenges>>>>) >>

\* and the whole of it.
ExpectedOps ==
    << Entry("observe_elements", "public_inputs", 0, <<public_inputs>>) >>
    \o ExpectedRounds(Min(Len(rounds), Len(proof.trace_caps)))
    \o << Entry("get_n_challenges", "alphas", 0, <<<<config.num_challenges>>>>),
          Entry("observe_cap", "quotient_polys_cap", 0, <<proof.quotient_polys_cap>>),
          Entry("get_extension_challenge", "zeta", 0, <<<<D>>>>),
          Entry("observe_openings", "openings", 0,
                << Flatten(proof.openings.local_values \o proof.openings.quotient_polys),
                   Flatten(proof.openings.next_values) >>),
          Entry("fri_challenges", "opening_proof", 0, <<>>) >>

\* What a fresh transcript squeezes when it is taken through a sequence of
\* operations: per operation, the values squeezed (none for an absorb).
RECURSIVE Replay(_, _, _, _)
Replay(ops, k, s, outs) ==
    IF k > Len(ops) THEN outs
    ELSE LET e == ops[k]
             squeeze == e.op \in {"get_n_challenges", "get_extension_challenge"}
             c == IF squeeze THEN get_n_challenges(s, e.arg[1][1])
                  ELSE [out |-> <<>>,
                        sponge |-> IF e.op = "fri_challenges" THEN s
                                   ELSE observe_elements(s, Flatten(e.arg))]
         IN  Replay(ops, k + 1, c.sponge, Append(outs, c.out))

\* The values squeezed for the rounds, in the order of the operations.
RECURSIVE RoundValues(_, _, _)
RoundValues(ops, outs, k) ==
    IF k > Len(ops) THEN <<>>
    ELSE (IF ops[k].src[1] = "round" THEN outs[k] ELSE <<>>)
             \o RoundValues(ops, outs, k + 1)

Position(ops, src, r) == {k \in 1..Len(ops) : ops[k].src = <<src, r>>}

\* No round's challenges are squeezed before that round's cap is absorbed,
\* and zeta is not squeezed before the quotient cap is absorbed.
AbsorbBeforeSqueeze(ops) ==
    /\ \A k \in 1..Len(ops) :
           ops[k].src[1] = "round" =>
               \E j \in 1..(k - 1) : ops[j].src = <<"trace_cap", ops[k].src[2]>>
    /\ \A k \in Position(ops, "zeta", 0) :
           \E j \in 1..(k - 1) : ops[j].src = <<"quotient_polys_cap", 0>>

\* C1: get_challenges issues its transcript operations in the order of
\* section 4.4 on a transcript created for the call: at every point of a call
\* the operations so far are a prefix of that order, a call that returns has
\* issued all of it, and the betas it returns are the rounds' challenges
\* concatenated in round order.
C1_TranscriptOrder ==
    /\ (mode = "plain" /\ pc \notin {"idle", "new"}) =>
           /\ IsPrefix(log, ExpectedOps)
           /\ AbsorbBeforeSqueeze(log)
    /\ \A k \in 1..Len(history) :
           history[k].mode = "plain" =>
               /\ IsPrefix(history[k].log, ExpectedOps)
               /\ AbsorbBeforeSqueeze(history[k].log)
               /\ history[k].status = "done" =>
                      LET outs == Replay(ExpectedOps, 1, FreshSponge, <<>>)
                      IN  /\ history[k].log = ExpectedOps
                          /\ history[k].stark_betas =
                                 RoundValues(ExpectedOps, outs, 1)

\* C1 witness: a call of get_challenges over two rounds has returned.
C1_Witness ==
    \E k \in 1..Len(history) :
        /\ history[k].mode = "plain" /\ history[k].status = "done"
        /\ Len(rounds) = 2 /\ Len(history[k].stark_betas) >= 2

\* C3: get_challenges and get_challenges_target are one protocol: on one
\* input they end the same way (both return, or both fail), after the same
\* transcript operations, with the same alphas, betas and zeta.
C3_SameProtocol ==
    \A j, k \in 1..Len(history) :
        (history[j].mode = "plain" /\ history[k].mode = "target") =>
            /\ history[j].status = history[k].status
            /\ history[j].log = history[k].log
            /\ history[j].stark_alphas = history[k].stark_alphas
            /\ history[j].stark_betas = history[k].stark_betas
            /\ history[j].stark_zeta = history[k].stark_zeta

\* The same, for a proof with as many trace caps as the metadata has rounds.
SameProtocolOnEqualCounts ==
    Len(rounds) = Len(proof.trace_caps) => C3_SameProtocol

\* C4: when the number of trace caps differs from the number of rounds, the
\* derivation fails, and before any transcript operation.
C4_FailsBeforeAnyOperation ==
    \A k \in 1..Len(history) :
        Len(proof.trace_caps) # Len(rounds) =>
            /\ history[k].status = "panicked"
            /\ history[k].log = <<>>

\* C7 as stated: two calls of get_challenges on the same proof, round
\* metadata, public inputs and configuration return the same challenges,
\* the FRI challenges among them.
C7_SameInputsSameChallenges ==
    \A j, k \in 1..Len(history) :
        (history[j].mode = "plain" /\ history[k].mode = "plain") =>
            /\ history[j].status = history[k].status
            /\ history[j].stark_alphas = history[k].stark_alphas
            /\ history[j].stark_betas = history[k].stark_betas
            /\ history[j].stark_zeta = history[k].stark_zeta
            /\ history[j].fri_challenges = history[k].fri_challenges

\* C7 as amended: two calls of get_challenges on the same proof, round
\* metadata, public inputs and configuration end the same way with the same
\* alphas, betas and zeta, and with the same FRI challenges when they are
\* given the same degree_bits; each call starts from a fresh transcript.
C7_PureGivenDegreeBits ==
    /\ pc = "observe_public" => challenger = FreshSponge
    /\ \A j, k \in 1..Len(history) :
           (history[j].mode = "plain" /\ history[k].mode = "plain") =>
               /\ history[j].status = history[k].status
               /\ history[j].log = history[k].log
               /\ history[j].stark_alphas = history[k].stark_alphas
               /\ history[j].stark_betas = history[k].stark_betas
               /\ history[j].stark_zeta = history[k].stark_zeta
               /\ history[j].degree_bits = history[k].degree_bits =>
                      history[j].fri_challenges = history[k].fri_challenges

\* C7 witness: get_challenges has returned twice.
C7_Witness ==
    /\ Len(history) >= 2
    /\ history[1].mode = "plain" /\ history[1].status = "done"
    /\ history[2].mode = "plain" /\ history[2].status = "done"
    /\ history[1].degree_bits = history[2].degree_bits


(***************************************************************************)
(* Claims about recover_degree_bits and to_fri_openings                    *)
(***************************************************************************)
\* The proof has the Merkle proof recover_degree_bits reads.
HasFirstPath ==
    /\ Len(dproof.query_round_proofs) >= 1
    /\ Len(dproof.query_round_proofs[1].initial_trees_proof.evals_proofs) >= 1

FirstPathLength ==
    Len(dproof.query_round_proofs[1].initial_trees_proof.evals_proofs[1][2].siblings)

\* C8 as stated: for every proof and configuration, recover_degree_bits
\* returns cap_height + (path length) - rate_bits, a non-negative integer, in
\* both proof types.
C8_RecoversForEveryProof ==
    \A r \in {dret, dret_target} :
        r # NotReturned =>
            /\ HasFirstPath
            /\ r = Ok(dconfig.cap_height + FirstPathLength - dconfig.rate_bits)
            /\ r.value >= 0

\* C8 as amended: for every proof that has a first query round with a first
\* initial-tree evaluation proof, and every configuration whose rate_bits is
\* at most cap_height + (the length of that proof's Merkle path),
\* recover_degree_bits returns exactly their difference, in both proof types;
\* for any other proof or configuration it returns no such value (it panics,
\* or the subtraction wraps).
C8_RecoversWhenWellFormed ==
    \A r \in {dret, dret_target} :
        r # NotReturned =>
            IF HasFirstPath /\ dconfig.rate_bits <= dconfig.cap_height + FirstPathLength
            THEN r = Ok(dconfig.cap_height + FirstPathLength - dconfig.rate_bits)
            ELSE r.kind \in {"panic", "wrapped"}

\* C8 witness: cap height 4, path length 20 and rate bits 3 gave 21, twice.
C8_Witness ==
    /\ HasFirstPath /\ FirstPathLength = 20
    /\ dconfig.cap_height = 4 /\ dconfig.rate_bits = 3
    /\ dret = Ok(21) /\ dret_target = Ok(21)

\* C10: to_fri_openings returns two batches: local_values followed by
\* quotient_polys, then next_values, each in its order; the in-circuit
\* to_fri_openings returns the same.
C10_TwoBatches ==
    \A f \in {ofri, ofri_target} :
        f # NoOpenings =>
            /\ Len(f.batches) = 2
            /\ f.batches[1].values = oset.local_values \o oset.quotient_polys
            /\ f.batches[2].values = oset.next_values

\* C10 witness: local = [a, b], next = [c], quotient = [d] gave
\* [[a, b, d], [c]], twice.
C10_Witness ==
    /\ oset = [local_values |-> <<"a", "b">>, next_values |-> <<"c">>,
               quotient_polys |-> <<"d">>]
    /\ ofri.batches = << [values |-> <<"a", "b", "d">>], [values |-> <<"c">>] >>
    /\ ofri_target = ofri


(***************************************************************************)
(* Claims about StarkOpeningSet::new                                       *)
(***************************************************************************)
\* The polynomial of a column.
PolyOf(commitments, t) == commitments[t[1]].polynomials[t[2]]

\* The evaluations at z of the columns of the commitments, in column order.
Evaluations(commitments, z) ==
    [k \in 1..Len(Columns(commitments)) |->
        eval(to_extension(PolyOf(commitments, Columns(commitments)[k])), z)]

\* C9: in whatever order the workers finish, local_values and next_values
\* hold the evaluations at zeta and at zeta * g of the trace columns in
\* column order (commitments in the given order, columns in order within
\* each), both as long as there are trace columns, and quotient_polys holds
\* the quotient columns evaluated at zeta, in column order.
C9_SameForEverySchedule ==
    nphase = "done" =>
        /\ nout.local_values = Evaluations(nin.trace_commitments, nin.zeta)
        /\ nout.next_values =
               Evaluations(nin.trace_commitments, scalar_mul(nin.zeta, nin.g))
        /\ Len(nout.local_values) = Len(nout.next_values)
        /\ Len(nout.local_values) = Len(Columns(nin.trace_commitments))
        /\ nout.quotient_polys = Evaluations(<<nin.quotient_commitment>>, nin.zeta)

\* C9 witness: an opening set over two commitments was built by workers that
\* finished out of column order.
C9_Witness ==
    /\ nphase = "done" /\ nshuffled
    /\ Len(nin.trace_commitments) = 2
    /\ Len(nout.local_values) = 3

=============================================================================
